---------------------------- MODULE Spec2Model ----------------------------
(***************************************************************************)
(* Technical-analysis indicator library of the stock market report         *)
(* generator (src/src/ta.py): ema, macd, support_resistance and            *)
(* trend_direction over a pandas price series.                             *)
(*                                                                         *)
(* Numbers are exact rationals [nan, n, d] (d > 0, lowest terms); nan marks*)
(* a missing entry (pandas NaN).  Floating-point rounding is not modelled. *)
(* Prices and the tolerance are counted in one common price quantum of     *)
(* 1e-7, so that the default tolerance 1e-6 of trend_direction is the      *)
(* integer DefaultTol.                                                     *)
(***************************************************************************)
EXTENDS Integers, Sequences, FiniteSets, TLC

\* The caller of the indicator library: the series it holds, its position, the
\* call made and the result returned; prev is the last call it remembers
\* with its result.
VARIABLES series, pc, call, result, prev

\* A multi-symbol fetch: the symbols asked for with what their download
\* gives, the position of the fetch, the function called and what it returned.
VARIABLES universe, fpc, fcall, fresult

\* build(): the two index histories, the position in build(), the TA sections
\* appended so far, what the indicators were given, and how build() ended.
VARIABLES hists, bpc, ta_sections, taLog, outcome

taVars == <<series, pc, call, result, prev>>
fetchVars == <<universe, fpc, fcall, fresult>>
buildVars == <<hists, bpc, ta_sections, taLog, outcome>>

\* The variables outside the indicator library and its caller.
beyondTa == <<fetchVars, buildVars>>

vars == <<taVars, fetchVars, buildVars>>

(***************************************************************************)
(* Bounds of the model.                                                    *)
(***************************************************************************)
MaxLen == 3
MaxSpan == 2

\* tol: float = 1e-6, in price quanta of 1e-7
DefaultTol == 10

(***************************************************************************)
(* Exact arithmetic on possibly-missing numbers.                           *)
(***************************************************************************)
Abs(x) == IF x < 0 THEN -x ELSE x

RECURSIVE GCD(_, _)
GCD(a, b) == IF b = 0 THEN a ELSE GCD(b, a % b)

NaN == [nan |-> TRUE, n |-> 0, d |-> 1]

Norm(n, d) ==
    LET g == GCD(Abs(n), d)
    IN  [nan |-> FALSE, n |-> n \div g, d |-> d \div g]

Num(k) == [nan |-> FALSE, n |-> k, d |-> 1]

IsNaN(a) == a.nan
NotNaN(a) == ~a.nan

VAdd(a, b) == IF a.nan \/ b.nan THEN NaN ELSE Norm(a.n * b.d + b.n * a.d, a.d * b.d)
VSub(a, b) == IF a.nan \/ b.nan THEN NaN ELSE Norm(a.n * b.d - b.n * a.d, a.d * b.d)
VMul(a, b) == IF a.nan \/ b.nan THEN NaN ELSE Norm(a.n * b.n, a.d * b.d)
VDiv(a, b) ==
    IF a.nan \/ b.nan THEN NaN
    ELSE IF b.n < 0 THEN Norm(-(a.n * b.d), a.d * (-b.n))
    ELSE Norm(a.n * b.d, a.d * b.n)

\* Python comparisons of floats: every comparison with NaN is False.
VLt(a, b) == ~a.nan /\ ~b.nan /\ a.n * b.d < b.n * a.d
VGt(a, b) == VLt(b, a)
VLe(a, b) == ~a.nan /\ ~b.nan /\ a.n * b.d <= b.n * a.d
VNeg(a) == IF a.nan THEN NaN ELSE [nan |-> FALSE, n |-> -a.n, d |-> a.d]

(***************************************************************************)
(* The inputs: a pandas Series of prices (possibly with missing entries),  *)
(* or None.                                                                *)
(***************************************************************************)
Prices == {0, 1, 2, 20, 40}

Entries == {Num(p) : p \in Prices} \cup {NaN}

RECURSIVE SeqsUpTo(_, _)
SeqsUpTo(S, k) ==
    IF k = 0 THEN {<<>>}
    ELSE LET shorter == SeqsUpTo(S, k - 1)
         IN  shorter \cup {Append(s, e) : s \in {t \in shorter : Len(t) = k - 1}, e \in S}

NoneSeries == [isNone |-> TRUE, vals |-> <<>>]

Series(v) == [isNone |-> FALSE, vals |-> v]

AllSeries == {Series(v) : v \in SeqsUpTo(Entries, MaxLen)} \cup {NoneSeries}

Spans == -1..MaxSpan
Periods == 0..MaxSpan
Windows == -1..(MaxLen + 1)
Tols == {Num(0), Num(1), Num(DefaultTol)}

(***************************************************************************)
(* pandas / numpy primitives used by ta.py.                                *)
(***************************************************************************)
\* series is None or series.empty
NoneOrEmpty(s) == s.isNone \/ Len(s.vals) = 0

\* The missing entries dropped before the tail is taken:
\* series.dropna().tail(n).
SeriesTail_OfValid(v, n) ==
    LET u == SelectSeq(v, NotNaN)
    IN  IF n = 0 THEN <<>>
        ELSE IF n > 0 THEN
            IF n >= Len(u) THEN u ELSE SubSeq(u, Len(u) - n + 1, Len(u))
        ELSE
            IF -n >= Len(u) THEN <<>> ELSE SubSeq(u, 1 - n, Len(u))

\* Series.tail(n): iloc[0:0] for n = 0, iloc[-n:] otherwise
SeriesTail(v, n) ==
    IF n = 0 THEN <<>>
    ELSE IF n > 0 THEN
        IF n >= Len(v) THEN v ELSE SubSeq(v, Len(v) - n + 1, Len(v))
    ELSE \* iloc[k:] with k = -n > 0
        IF -n >= Len(v) THEN <<>> ELSE SubSeq(v, 1 - n, Len(v))

\* Series.dropna()
DropNa(v) == SelectSeq(v, NotNaN)

RECURSIVE SeqMin(_)
SeqMin(v) ==
    IF Len(v) = 1 THEN v[1]
    ELSE LET m == SeqMin(Tail(v))
         IN  IF VLt(v[1], m) THEN v[1] ELSE m

RECURSIVE SeqMax(_)
SeqMax(v) ==
    IF Len(v) = 1 THEN v[1]
    ELSE LET m == SeqMax(Tail(v))
         IN  IF VGt(v[1], m) THEN v[1] ELSE m

\* a - b of two Series on the same index
SeriesSub(a, b) == [i \in 1..Len(a) |-> VSub(a[i], b[i])]

\* The result of a call: a raised exception, or the returned value: the series
\* returned (one by ema, three by macd), the scalars returned (support and
\* resistance, or the slope) and the trend label.
Returned(lines, levels, trend) ==
    [raised |-> FALSE, lines |-> lines, levels |-> levels, trend |-> trend]
Raised == [raised |-> TRUE, lines |-> <<>>, levels |-> <<>>, trend |-> ""]

\* return <a pd.Series>
ReturnedSeries(e) == Returned(<<e>>, <<>>, "")
\* return macd_line, signal_line, hist
ReturnedLines(m, s, h) == Returned(<<m, s, h>>, <<>>, "")
\* return support, resistance
ReturnedLevels(lo, hi) == Returned(<<>>, <<lo, hi>>, "")
\* return trend, slope
ReturnedTrend(label, slope) == Returned(<<>>, <<slope>>, label)

\* A missing entry passed through to the output instead of carrying the
\* previous average over it.
EwmStep_MissingOut(st, cur, alpha) ==
    IF NotNaN(cur) THEN
        IF NotNaN(st.weighted) THEN
            [weighted |-> VAdd(VMul(VSub(Num(1), alpha), st.weighted), VMul(alpha, cur)),
             old_wt |-> Num(1)]
        ELSE [weighted |-> cur, old_wt |-> Num(1)]
    ELSE [weighted |-> NaN, old_wt |-> Num(1)]

\* One step of the exponentially weighted mean (adjust=False, ignore_na=False):
\* st = [weighted, old_wt], cur the next entry.
EwmStep(st, cur, alpha) ==
    IF NotNaN(st.weighted) THEN
        LET wt == VMul(st.old_wt, VSub(Num(1), alpha))
        IN  IF NotNaN(cur) THEN
                [weighted |-> IF st.weighted # cur
                              THEN VDiv(VAdd(VMul(wt, st.weighted), VMul(alpha, cur)),
                                        VAdd(wt, alpha))
                              ELSE st.weighted,
                 old_wt |-> Num(1)]
            ELSE [weighted |-> st.weighted, old_wt |-> wt]
    ELSE IF NotNaN(cur) THEN [weighted |-> cur, old_wt |-> st.old_wt]
    ELSE st

RECURSIVE EwmScan(_, _, _, _, _)
EwmScan(v, alpha, i, st, out) ==
    IF i > Len(v) THEN out
    ELSE LET nxt == EwmStep(st, v[i], alpha)
         IN  EwmScan(v, alpha, i + 1, nxt, Append(out, nxt.weighted))

\* A wrong smoothing factor: alpha = 1 / span instead of 2 / (span + 1).
EwmMean_AlphaInvSpan(v, span) ==
    IF span < 1 THEN Raised
    ELSE ReturnedSeries(EwmScan(v, Norm(1, span), 2,
                          [weighted |-> v[1], old_wt |-> Num(1)], <<v[1]>>))

\* Series.ewm(span=span, adjust=False).mean() of a non-empty Series;
\* span < 1 raises ValueError.
EwmMean(v, span) ==
    IF span < 1 THEN Raised
    ELSE ReturnedSeries(EwmScan(v, Norm(2, span + 1), 2,
                          [weighted |-> v[1], old_wt |-> Num(1)], <<v[1]>>))

(***************************************************************************)
(* src/src/ta.py                                                           *)
(***************************************************************************)
ema(s, span) ==
    IF NoneOrEmpty(s) THEN ReturnedSeries(<<>>)
    ELSE EwmMean(s.vals, span)

\* The histogram subtracted the wrong way round: signal_line - macd_line.
macd_HistReversed(s, fast, slow, signal) ==
    IF NoneOrEmpty(s) THEN ReturnedLines(<<>>, <<>>, <<>>)
    ELSE LET f == ema(s, fast)
             sl == ema(s, slow)
         IN  IF f.raised \/ sl.raised THEN Raised
             ELSE LET macd_line == SeriesSub(f.lines[1], sl.lines[1])
                      sg == ema(Series(macd_line), signal)
                  IN  IF sg.raised THEN Raised
                      ELSE ReturnedLines(macd_line, sg.lines[1],
                                         SeriesSub(sg.lines[1], macd_line))

macd(s, fast, slow, signal) ==
    IF NoneOrEmpty(s) THEN ReturnedLines(<<>>, <<>>, <<>>)
    ELSE LET f == ema(s, fast)
             sl == ema(s, slow)
         IN  IF f.raised \/ sl.raised THEN Raised
             ELSE LET macd_line == SeriesSub(f.lines[1], sl.lines[1])
                      sg == ema(Series(macd_line), signal)
                  IN  IF sg.raised THEN Raised
                      ELSE ReturnedLines(macd_line, sg.lines[1],
                                         SeriesSub(macd_line, sg.lines[1]))

\* The window taken from the front: series.head(window).
support_resistance_Head(s, window) ==
    IF NoneOrEmpty(s) THEN ReturnedLevels(Num(0), Num(0))
    ELSE LET n == IF window < 0 THEN 0
                  ELSE IF window > Len(s.vals) THEN Len(s.vals) ELSE window
             w == DropNa(SubSeq(s.vals, 1, n))
         IN  IF Len(w) = 0 THEN ReturnedLevels(Num(0), Num(0))
             ELSE ReturnedLevels(SeqMin(w), SeqMax(w))

\* The guard on an all-missing window left out: min and max of nothing are NaN.
support_resistance_NoEmptyGuard(s, window) ==
    IF NoneOrEmpty(s) THEN ReturnedLevels(Num(0), Num(0))
    ELSE LET w == DropNa(SeriesTail(s.vals, window))
         IN  IF Len(w) = 0 THEN ReturnedLevels(NaN, NaN)
             ELSE ReturnedLevels(SeqMin(w), SeqMax(w))

\* The pair returned the wrong way round: (max, min).
support_resistance_Swapped(s, window) ==
    IF NoneOrEmpty(s) THEN ReturnedLevels(Num(0), Num(0))
    ELSE LET w == DropNa(SeriesTail(s.vals, window))
         IN  IF Len(w) = 0 THEN ReturnedLevels(Num(0), Num(0))
             ELSE ReturnedLevels(SeqMax(w), SeqMin(w))

support_resistance(s, window) ==
    IF NoneOrEmpty(s) THEN ReturnedLevels(Num(0), Num(0))
    ELSE LET w == DropNa(SeriesTail(s.vals, window))
         IN  IF Len(w) = 0 THEN ReturnedLevels(Num(0), Num(0))
             ELSE ReturnedLevels(SeqMin(w), SeqMax(w))

RECURSIVE SumXY(_, _)
\* sum of (i-1) * y[i] for i in 1..k
SumXY(y, k) == IF k = 0 THEN Num(0) ELSE VAdd(SumXY(y, k - 1), VMul(Num(k - 1), y[k]))

RECURSIVE SumY(_, _)
SumY(y, k) == IF k = 0 THEN Num(0) ELSE VAdd(SumY(y, k - 1), y[k])

RECURSIVE SumX(_)
SumX(k) == IF k = 0 THEN 0 ELSE SumX(k - 1) + (k - 1)

RECURSIVE SumXX(_)
SumXX(k) == IF k = 0 THEN 0 ELSE SumXX(k - 1) + (k - 1) * (k - 1)

\* The wrong coefficient read: np.polyfit(x, y, 1)[1], the intercept.
PolyfitIntercept(y) ==
    LET k == Len(y)
        m == VDiv(VSub(VMul(Num(k), SumXY(y, k)), VMul(Num(SumX(k)), SumY(y, k))),
                  Num(k * SumXX(k) - SumX(k) * SumX(k)))
    IN  VDiv(VSub(SumY(y, k), VMul(m, Num(SumX(k)))), Num(k))

\* np.polyfit(np.arange(len(y)), y, 1)[0]: the least-squares slope
PolyfitSlope(y) ==
    LET k == Len(y)
    IN  VDiv(VSub(VMul(Num(k), SumXY(y, k)), VMul(Num(SumX(k)), SumY(y, k))),
             Num(k * SumXX(k) - SumX(k) * SumX(k)))

\* The comparisons made inclusive: slope >= tol, slope <= -tol.
trend_direction_Inclusive(s, window, tol) ==
    IF NoneOrEmpty(s) THEN ReturnedTrend("Sideways", Num(0))
    ELSE LET y == DropNa(SeriesTail(s.vals, window))
         IN  IF Len(y) < 2 THEN ReturnedTrend("Sideways", Num(0))
             ELSE LET slope == PolyfitSlope(y)
                  IN  IF VLe(tol, slope) THEN ReturnedTrend("Up", slope)
                      ELSE IF VLe(slope, VNeg(tol)) THEN ReturnedTrend("Down", slope)
                      ELSE ReturnedTrend("Sideways", slope)

\* The missing entries dropped before the window is taken:
\* series.dropna().tail(window).
trend_direction_ValidFirst(s, window, tol) ==
    IF NoneOrEmpty(s) THEN ReturnedTrend("Sideways", Num(0))
    ELSE LET y == SeriesTail(DropNa(s.vals), window)
         IN  IF Len(y) < 2 THEN ReturnedTrend("Sideways", Num(0))
             ELSE LET slope == PolyfitSlope(y)
                  IN  IF VGt(slope, tol) THEN ReturnedTrend("Up", slope)
                      ELSE IF VLt(slope, VNeg(tol)) THEN ReturnedTrend("Down", slope)
                      ELSE ReturnedTrend("Sideways", slope)

trend_direction(s, window, tol) ==
    IF NoneOrEmpty(s) THEN ReturnedTrend("Sideways", Num(0))
    ELSE LET y == DropNa(SeriesTail(s.vals, window))
         IN  IF Len(y) < 2 THEN ReturnedTrend("Sideways", Num(0))
             ELSE LET slope == PolyfitSlope(y)
                  IN  IF VGt(slope, tol) THEN ReturnedTrend("Up", slope)
                      ELSE IF VLt(slope, VNeg(tol)) THEN ReturnedTrend("Down", slope)
                      ELSE ReturnedTrend("Sideways", slope)

(***************************************************************************)
(* The caller: holds a series and calls one engine operation at a time.    *)
(***************************************************************************)
\* No call has returned: nothing is held.
NoResult == Returned(<<>>, <<>>, "")

NoCall == [op |-> "none", a |-> 0, b |-> 0, c |-> 0, tol |-> Num(0)]

\* No fetch is running.
NoUniverse == [hasSector |-> FALSE, rows |-> <<>>]

NoFetched == [data |-> {}, gainers |-> <<>>, losers |-> <<>>, perf |-> <<>>, logged |-> 0]

FetchIdle ==
    /\ universe = NoUniverse
    /\ fpc = "idle"
    /\ fcall = "none"
    /\ fresult = NoFetched

\* build() is not running.
NoHistory == [cols |-> "ohlc", close |-> <<>>]

NoTaLog == [iterations |-> 0, onEmpty |-> FALSE, lastOfEmpty |-> FALSE]

BuildIdle ==
    /\ hists = <<NoHistory, NoHistory>>
    /\ bpc = "idle"
    /\ ta_sections = <<>>
    /\ taLog = NoTaLog
    /\ outcome = ""

\* Nothing is remembered.
NoPrev == [call |-> NoCall, result |-> NoResult]

Init ==
    /\ series \in AllSeries
    /\ pc = "idle"
    /\ call = NoCall
    /\ result = NoResult
    /\ prev = NoPrev
    /\ FetchIdle
    /\ BuildIdle

CallEma ==
    /\ pc = "idle"
    /\ \E span \in Spans :
        /\ call' = [op |-> "ema", a |-> span, b |-> 0, c |-> 0, tol |-> Num(0)]
        /\ result' = ema(series, span)
    /\ pc' = "returned"
    /\ UNCHANGED <<series, prev, beyondTa>>

CallMacd ==
    /\ pc = "idle"
    /\ \E fast \in Periods : \E slow \in Periods : \E signal \in Periods :
        /\ call' = [op |-> "macd", a |-> fast, b |-> slow, c |-> signal, tol |-> Num(0)]
        /\ result' = macd(series, fast, slow, signal)
    /\ pc' = "returned"
    /\ UNCHANGED <<series, prev, beyondTa>>

\* The window taken in place: series.dropna(inplace=True) before the tail.
CallSupportResistance_InPlace ==
    /\ pc = "idle"
    /\ \E window \in Windows :
        /\ call' = [op |-> "support_resistance", a |-> window, b |-> 0, c |-> 0,
                    tol |-> Num(0)]
        /\ result' = support_resistance(series, window)
    /\ pc' = "returned"
    /\ series' = [series EXCEPT !.vals = DropNa(series.vals)]
    /\ UNCHANGED <<prev, beyondTa>>

CallSupportResistance ==
    /\ pc = "idle"
    /\ \E window \in Windows :
        /\ call' = [op |-> "support_resistance", a |-> window, b |-> 0, c |-> 0,
                    tol |-> Num(0)]
        /\ result' = support_resistance(series, window)
    /\ pc' = "returned"
    /\ UNCHANGED <<series, prev, beyondTa>>

CallTrendDirection ==
    /\ pc = "idle"
    /\ \E window \in Windows : \E tol \in Tols :
        /\ call' = [op |-> "trend_direction", a |-> window, b |-> 0, c |-> 0,
                    tol |-> tol]
        /\ result' = trend_direction(series, window, tol)
    /\ pc' = "returned"
    /\ UNCHANGED <<series, prev, beyondTa>>

\* The caller consumes the result and is ready for the next call.
Return ==
    /\ pc = "returned"
    /\ pc' = "idle"
    /\ call' = NoCall
    /\ result' = NoResult
    /\ UNCHANGED <<series, prev, beyondTa>>

Next ==
    \/ CallEma
    \/ CallMacd
    \/ CallSupportResistance
    \/ CallTrendDirection
    \/ Return

Spec == Init /\ [][Next]_vars

(***************************************************************************)
(* A caller that calls again: it remembers the call it made and the result *)
(* it got, and calls the library again on the series it still holds.       *)
(***************************************************************************)
RepeatEntries == {Num(20), Num(40), NaN}

RepeatSeries ==
    {s \in AllSeries :
        /\ Len(s.vals) < MaxLen
        /\ \A i \in 1..Len(s.vals) : s.vals[i] \in RepeatEntries}

InitRepeat ==
    /\ series \in RepeatSeries
    /\ pc = "idle"
    /\ call = NoCall
    /\ result = NoResult
    /\ prev = NoPrev
    /\ FetchIdle
    /\ BuildIdle

\* The caller keeps the call and its result, and is ready for the next call.
ReturnRemember ==
    /\ pc = "returned"
    /\ pc' = "idle"
    /\ prev' = [call |-> call, result |-> result]
    /\ call' = NoCall
    /\ result' = NoResult
    /\ UNCHANGED <<series, beyondTa>>

NextRepeat ==
    \/ CallEma
    \/ CallMacd
    \/ CallSupportResistance
    \/ CallTrendDirection
    \/ ReturnRemember

SpecRepeat == InitRepeat /\ [][NextRepeat]_vars

\* No caller of the indicator library is running.
TaIdle ==
    /\ series = NoneSeries
    /\ pc = "idle"
    /\ call = NoCall
    /\ result = NoResult
    /\ prev = NoPrev

(***************************************************************************)
(* fetchers.py: the multi-symbol fetches.  A row is one symbol asked for:  *)
(* whether it has a Yahoo symbol, its sector, what its download gives (a   *)
(* frame that parses, an empty frame, or a failure while fetching or       *)
(* parsing), and its change in percent when it parses.                     *)
(***************************************************************************)
MaxSymbols == 2

Sectors == <<"Bank", "IT">>

Changes == {-1, 1}

Rows ==
    [sym : BOOLEAN, sector : {Sectors[k] : k \in 1..Len(Sectors)},
     fetch : {"ok", "empty", "error"}, change : Changes]

Universes ==
    [hasSector : BOOLEAN,
     rows : UNION {[1..n -> Rows] : n \in 0..MaxSymbols}]

\* The row positions of a frame, in order.
Indices(rows) == [i \in 1..Len(rows) |-> i]

\* get_snapshots: the try is inside the loop, so a symbol that fails is
\* logged and the loop goes on to the next symbol.
RECURSIVE SnapshotsLoop(_, _, _)
SnapshotsLoop(rows, i, acc) ==
    IF i > Len(rows) THEN acc
    ELSE IF rows[i].fetch = "error"
         THEN SnapshotsLoop(rows, i + 1, [acc EXCEPT !.logged = @ + 1])
    ELSE IF rows[i].fetch = "empty"
         THEN SnapshotsLoop(rows, i + 1, acc)
    ELSE SnapshotsLoop(rows, i + 1, [acc EXCEPT !.data = @ \cup {i}])

get_snapshots(tickers) == SnapshotsLoop(tickers.rows, 1, NoFetched)

\* The download loop of top_movers_from_universe and of sector_performance
\* over the rows at positions idxs: the try is outside the loop, so a failing
\* symbol raises out of it.
RECURSIVE DownloadEach(_, _, _)
DownloadEach(rows, idxs, got) ==
    IF idxs = <<>> THEN [raised |-> FALSE, got |-> got]
    ELSE LET i == Head(idxs) IN
         IF ~rows[i].sym THEN DownloadEach(rows, Tail(idxs), got)
         ELSE IF rows[i].fetch = "empty"
              THEN DownloadEach(rows, Tail(idxs), got)
         ELSE IF rows[i].fetch = "error"
              THEN [raised |-> TRUE, got |-> got]
         ELSE DownloadEach(rows, Tail(idxs), Append(got, i))

\* DataFrame.sort_values(by="Change%"): sign 1 ascending, -1 descending; rows
\* with equal changes keep their order.
InsertSorted(s, x, rows, sign) ==
    LET pos == Cardinality({j \in 1..Len(s) :
                   sign * rows[s[j]].change <= sign * rows[x].change})
    IN SubSeq(s, 1, pos) \o <<x>> \o SubSeq(s, pos + 1, Len(s))

RECURSIVE SortValues(_, _, _)
SortValues(s, rows, sign) ==
    IF s = <<>> THEN <<>>
    ELSE InsertSorted(SortValues(SubSeq(s, 1, Len(s) - 1), rows, sign),
                      s[Len(s)], rows, sign)

\* DataFrame.head(n)
DfHead(s, n) == SubSeq(s, 1, IF n < Len(s) THEN n ELSE Len(s))

top_movers_from_universe(u, n) ==
    LET r == DownloadEach(u.rows, Indices(u.rows), <<>>)
        dfm_sorted == SortValues(r.got, u.rows, -1)
    IN IF r.raised THEN [NoFetched EXCEPT !.logged = 1]
       ELSE IF r.got = <<>> THEN NoFetched
       ELSE [NoFetched EXCEPT
                !.gainers = DfHead(dfm_sorted, n),
                !.losers = DfHead(SortValues(dfm_sorted, u.rows, 1), n)]

\* The rows of one sector, in frame order (universe.groupby("Sector")).
Group(rows, sector) ==
    SelectSeq(Indices(rows), LAMBDA i : rows[i].sector = sector)

RECURSIVE SumChanges(_, _)
SumChanges(rows, idxs) ==
    IF idxs = <<>> THEN 0
    ELSE rows[Head(idxs)].change + SumChanges(rows, Tail(idxs))

\* sum(changes) / len(changes)
MeanChange(rows, idxs) == VDiv(Num(SumChanges(rows, idxs)), Num(Len(idxs)))

RECURSIVE SectorLoop(_, _, _)
SectorLoop(rows, k, perf) ==
    IF k > Len(Sectors) THEN [raised |-> FALSE, perf |-> perf]
    ELSE LET r == DownloadEach(rows, Group(rows, Sectors[k]), <<>>) IN
         IF r.raised THEN [raised |-> TRUE, perf |-> perf]
         ELSE IF r.got = <<>> THEN SectorLoop(rows, k + 1, perf)
         ELSE SectorLoop(rows, k + 1,
                  Append(perf, [sector |-> Sectors[k],
                                change |-> MeanChange(rows, r.got)]))

sector_performance(u) ==
    IF ~u.hasSector THEN NoFetched
    ELSE LET r == SectorLoop(u.rows, 1, <<>>) IN
         IF r.raised THEN [NoFetched EXCEPT !.logged = 1]
         ELSE [NoFetched EXCEPT !.perf = r.perf]

InitFetch ==
    /\ universe \in Universes
    /\ fpc = "idle"
    /\ fcall = "none"
    /\ fresult = NoFetched
    /\ TaIdle
    /\ BuildIdle

CallGetSnapshots ==
    /\ fpc = "idle"
    /\ fcall' = "get_snapshots"
    /\ fresult' = get_snapshots(universe)
    /\ fpc' = "returned"
    /\ UNCHANGED <<universe, taVars, buildVars>>

CallTopMovers ==
    /\ fpc = "idle"
    /\ fcall' = "top_movers_from_universe"
    /\ fresult' = top_movers_from_universe(universe, 5)
    /\ fpc' = "returned"
    /\ UNCHANGED <<universe, taVars, buildVars>>

CallSectorPerformance ==
    /\ fpc = "idle"
    /\ fcall' = "sector_performance"
    /\ fresult' = sector_performance(universe)
    /\ fpc' = "returned"
    /\ UNCHANGED <<universe, taVars, buildVars>>

FetchReturn ==
    /\ fpc = "returned"
    /\ fpc' = "idle"
    /\ fcall' = "none"
    /\ fresult' = NoFetched
    /\ UNCHANGED <<universe, taVars, buildVars>>

NextFetch ==
    \/ CallGetSnapshots
    \/ CallTopMovers
    \/ CallSectorPerformance
    \/ FetchReturn

SpecFetch == InitFetch /\ [][NextFetch]_vars

(***************************************************************************)
(* main.py: build().  A history is what get_index_history returned: its    *)
(* columns (all of Open, High, Low, Close; Close but not all four; no      *)
(* Close) and one entry per row, the Close where the frame has that column.*)
(* The whole body of build() is inside try/except Exception.               *)
(***************************************************************************)
Names == <<"NIFTY 50", "BANK NIFTY">>

CloseColumns ==
    {<<>>, <<NaN>>, <<Num(20)>>, <<NaN, Num(20)>>, <<Num(20), NaN>>,
     <<Num(20), Num(40)>>, <<Num(40), Num(20)>>, <<Num(20), NaN, Num(40)>>}

Histories == [cols : {"ohlc", "close", "other"}, close : CloseColumns]

\* hist.empty
FrameEmpty(hist) == Len(hist.close) = 0

\* What one pass of the TA loop does: whether it raised, the section it
\* appended, whether an indicator was given an empty series and whether
\* .iloc[-1] was read on an empty series.
Skipped ==
    [raised |-> FALSE, sections |-> <<>>, onEmpty |-> FALSE, lastOfEmpty |-> FALSE]

KeyError ==
    [raised |-> TRUE, sections |-> <<>>, onEmpty |-> FALSE, lastOfEmpty |-> FALSE]

\* The indicator calls and the metrics of one history.
Metrics(name, closes) ==
    LET ema9 == ema(closes, 9)
        ema15 == ema(closes, 15)
        lines == macd(closes, 12, 26, 9)
        levels == support_resistance(closes, 20)
        trend == trend_direction(closes, 10, Num(DefaultTol))
        onEmpty == closes.vals = <<>>
        Last(line) == line[Len(line)]
    IN  IF ema9.raised \/ ema15.raised \/ lines.raised
           \/ levels.raised \/ trend.raised
        THEN [raised |-> TRUE, sections |-> <<>>, onEmpty |-> onEmpty,
              lastOfEmpty |-> FALSE]
        ELSE IF \E line \in {ema9.lines[1], ema15.lines[1], lines.lines[1],
                             lines.lines[2], lines.lines[3]} : Len(line) = 0
        THEN [raised |-> TRUE, sections |-> <<>>, onEmpty |-> onEmpty,
              lastOfEmpty |-> TRUE]
        ELSE [raised |-> FALSE,
              sections |-> <<[name |-> name,
                              interpretation |->
                                  IF VGt(Last(lines.lines[1]), Last(lines.lines[2]))
                                  THEN "Bullish" ELSE "Bearish"]>>,
              onEmpty |-> onEmpty, lastOfEmpty |-> FALSE]

\* The pass without the test of closes.empty.
TaIteration_NoClosesGuard(name, hist) ==
    IF FrameEmpty(hist) THEN Skipped
    ELSE IF hist.cols = "other" THEN KeyError
    ELSE Metrics(name, Series(DropNa(hist.close)))

TaIteration(name, hist) ==
    IF FrameEmpty(hist) THEN Skipped
    ELSE IF hist.cols = "other" THEN KeyError
    ELSE LET closes == Series(DropNa(hist.close)) IN
         IF closes.vals = <<>> THEN Skipped
         ELSE Metrics(name, closes)

InitBuild ==
    /\ BuildIdle
    /\ TaIdle
    /\ FetchIdle

\* except Exception: the failure is logged and build() returns None.
ReturnNone ==
    /\ outcome' = "None"
    /\ bpc' = "done"

\* Snapshots, histories, universe, other blocks and the saves: any of them
\* can fail; otherwise build() holds the two histories.
BuildFetch ==
    /\ bpc = "idle"
    /\ \/ /\ ReturnNone
          /\ UNCHANGED <<hists, ta_sections, taLog>>
       \/ /\ hists' \in [1..2 -> Histories]
          /\ bpc' = "charts"
          /\ UNCHANGED <<ta_sections, taLog, outcome>>
    /\ UNCHANGED <<taVars, fetchVars>>

\* The charts: candlestick_chart raises on a frame without all of Open, High,
\* Low, Close, and drawing or saving a figure can fail.
BuildCharts ==
    /\ bpc = "charts"
    /\ \E drawn \in BOOLEAN :
        IF drawn /\ \A k \in 1..2 : FrameEmpty(hists[k]) \/ hists[k].cols = "ohlc"
        THEN /\ bpc' = "ta1"
             /\ UNCHANGED outcome
        ELSE ReturnNone
    /\ UNCHANGED <<hists, ta_sections, taLog, taVars, fetchVars>>

\* One pass of the TA loop, for the k-th history.
BuildTa(k) ==
    /\ bpc = (IF k = 1 THEN "ta1" ELSE "ta2")
    /\ LET it == TaIteration(Names[k], hists[k]) IN
        /\ ta_sections' = ta_sections \o it.sections
        /\ taLog' = [iterations |-> k,
                     onEmpty |-> taLog.onEmpty \/ it.onEmpty,
                     lastOfEmpty |-> taLog.lastOfEmpty \/ it.lastOfEmpty]
        /\ IF it.raised THEN ReturnNone
           ELSE /\ bpc' = (IF k = 1 THEN "ta2" ELSE "pdf")
                /\ UNCHANGED outcome
    /\ UNCHANGED <<hists, taVars, fetchVars>>

\* The tables, the context and build_pdf: returns the path, or fails.
BuildPdf ==
    /\ bpc = "pdf"
    /\ \/ ReturnNone
       \/ /\ outcome' = "pdf_path"
          /\ bpc' = "done"
    /\ UNCHANGED <<hists, ta_sections, taLog, taVars, fetchVars>>

NextBuild ==
    \/ BuildFetch
    \/ BuildCharts
    \/ BuildTa(1)
    \/ BuildTa(2)
    \/ BuildPdf

SpecBuild == InitBuild /\ [][NextBuild]_vars


(***************************************************************************)
(* Vocabulary of the properties, stated without the operators of ta.py.    *)
(***************************************************************************)
Called(op) == pc = "returned" /\ call.op = op

One == Num(1)
Zero == Num(0)

\* alpha = 2 / (span + 1)
Alpha(span) == Norm(2, span + 1)

NoMissing(v) == \A i \in 1..Len(v) : ~v[i].nan

\* The last min(w, len) positions of v (w >= 1), and their non-missing values.
TrailingSlice(v, w) == SubSeq(v, IF w >= Len(v) THEN 1 ELSE Len(v) - w + 1, Len(v))
ValidOfTrailing(v, w) == SelectSeq(TrailingSlice(v, w), LAMBDA e : ~e.nan)

\* The last min(w, number of valid entries) non-missing values of v (w >= 1).
LastValid(v, w) == TrailingSlice(SelectSeq(v, LAMBDA e : ~e.nan), w)

Range(v) == {v[i] : i \in 1..Len(v)}
IsMinOf(m, v) == m \in Range(v) /\ \A e \in Range(v) : VLe(m, e)
IsMaxOf(m, v) == m \in Range(v) /\ \A e \in Range(v) : VLe(e, m)

\* sum over i in 1..k of x^p * (y[i] - m*x - b) with x = i - 1, p in {0, 1}
RECURSIVE Residual(_, _, _, _, _)
Residual(y, m, b, p, k) ==
    IF k = 0 THEN Zero
    ELSE LET r == VSub(y[k], VAdd(VMul(m, Num(k - 1)), b))
         IN  VAdd(Residual(y, m, b, p, k - 1), IF p = 0 THEN r ELSE VMul(Num(k - 1), r))

\* m is the slope of the least-squares line of y against 0..Len(y)-1: with the
\* intercept b that zeroes the mean residual, the residuals are orthogonal to x.
IsLeastSquaresSlope(m, y) ==
    LET k == Len(y)
        sy == Residual(y, Zero, Zero, 0, k)
        sx == Num((k * (k - 1)) \div 2)
        b == VDiv(VSub(sy, VMul(m, sx)), Num(k))
    IN  /\ ~m.nan
        /\ Residual(y, m, b, 0, k) = Zero
        /\ Residual(y, m, b, 1, k) = Zero

Sentinel_SR == ReturnedLevels(Zero, Zero)
Sentinel_Trend == ReturnedTrend("Sideways", Zero)

(***************************************************************************)
(* ema                                                                     *)
(***************************************************************************)
\* C1, as stated: for every non-empty series and span >= 1, ema returns a series
\* of the same length whose first element is s[0] and which satisfies
\* ema[i] = s[i]*a + ema[i-1]*(1-a), a = 2/(span+1), at every i > 0.
C1_EmaRecursionEverySeries ==
    (Called("ema") /\ ~NoneOrEmpty(series) /\ call.a >= 1) =>
        /\ ~result.raised
        /\ Len(result.lines[1]) = Len(series.vals)
        /\ result.lines[1][1] = series.vals[1]
        /\ \A i \in 2..Len(series.vals) :
             result.lines[1][i] = VAdd(VMul(series.vals[i], Alpha(call.a)),
                                    VMul(result.lines[1][i - 1], VSub(One, Alpha(call.a))))

\* C1, amended: for every non-empty series and span >= 1, ema returns a series
\* of the same length whose first element is s[0], and the recursion
\* ema[i] = s[i]*a + ema[i-1]*(1-a) holds at every i > 0 where s[i] and s[i-1]
\* are both present (so at every i > 0 of a series without missing entries).
C1_EmaRecursion ==
    (Called("ema") /\ ~NoneOrEmpty(series) /\ call.a >= 1) =>
        /\ ~result.raised
        /\ Len(result.lines[1]) = Len(series.vals)
        /\ result.lines[1][1] = series.vals[1]
        /\ \A i \in 2..Len(series.vals) :
             (~series.vals[i].nan /\ ~series.vals[i - 1].nan) =>
                 result.lines[1][i] = VAdd(VMul(series.vals[i], Alpha(call.a)),
                                        VMul(result.lines[1][i - 1], VSub(One, Alpha(call.a))))

\* C1 witness: ema with span 2 has returned on a full-length series without
\* missing entries whose values change.
C1_Witness ==
    /\ Called("ema")
    /\ call.a = 2
    /\ Len(series.vals) = MaxLen
    /\ NoMissing(series.vals)
    /\ series.vals[1] # series.vals[2]
    /\ ~result.raised
    /\ result.lines[1][MaxLen] # series.vals[MaxLen]

(***************************************************************************)
(* macd                                                                    *)
(***************************************************************************)
\* C2: for every series and periods fast, slow, signal (>= 1), macd returns three
\* series of the length of s with, at every index, macd_line = ema(s, fast) -
\* ema(s, slow), signal_line = ema(macd_line, signal) and
\* histogram = macd_line - signal_line.
C2_MacdDecomposition ==
    (Called("macd") /\ ~series.isNone /\ call.a >= 1 /\ call.b >= 1 /\ call.c >= 1) =>
        /\ ~result.raised
        /\ LET macd_line == result.lines[1]
               signal_line == result.lines[2]
               hist == result.lines[3]
               n == Len(series.vals)
               ef == ema(series, call.a).lines[1]
               es == ema(series, call.b).lines[1]
           IN  /\ Len(macd_line) = n
               /\ Len(signal_line) = n
               /\ Len(hist) = n
               /\ \A i \in 1..n :
                    /\ macd_line[i] = VSub(ef[i], es[i])
                    /\ hist[i] = VSub(macd_line[i], signal_line[i])
               /\ signal_line = ema(Series(macd_line), call.c).lines[1]

\* C2 witness: macd (1, 2, 2) has returned on a full-length series without
\* missing entries, with a non-zero last histogram value.
C2_Witness ==
    /\ Called("macd")
    /\ call.a = 1 /\ call.b = 2 /\ call.c = 2
    /\ Len(series.vals) = MaxLen
    /\ NoMissing(series.vals)
    /\ ~result.raised
    /\ result.lines[3][MaxLen] # Zero

(***************************************************************************)
(* The trailing window of support_resistance and trend_direction           *)
(***************************************************************************)
\* The returned result is the one computed from exactly the points y.
ComputedFrom(y) ==
    /\ ~result.raised
    /\ call.op = "support_resistance" =>
         IF Len(y) = 0 THEN result = Sentinel_SR
         ELSE IsMinOf(result.levels[1], y) /\ IsMaxOf(result.levels[2], y)
    /\ call.op = "trend_direction" =>
         IF Len(y) < 2 THEN result = Sentinel_Trend
         ELSE IsLeastSquaresSlope(result.levels[1], y)

WindowedCall ==
    /\ pc = "returned"
    /\ call.op \in {"support_resistance", "trend_direction"}
    /\ call.a >= 1
    /\ ~NoneOrEmpty(series)

\* C3, as stated: support_resistance and trend_direction compute from the last
\* `window` non-missing values of the series.
C3_LastWindowValidPoints ==
    WindowedCall => ComputedFrom(LastValid(series.vals, call.a))

\* C3, amended: support_resistance and trend_direction compute from the
\* non-missing values among the last min(window, len) positions of the series.
C3_ValidPointsOfTrailingSlice ==
    WindowedCall => ComputedFrom(ValidOfTrailing(series.vals, call.a))

\* C3 witness: a windowed call has returned on a series where the two
\* selections differ and the trailing slice holds a value.
C3_Witness ==
    /\ WindowedCall
    /\ call.op = "support_resistance"
    /\ Len(ValidOfTrailing(series.vals, call.a)) >= 1
    /\ LastValid(series.vals, call.a) # ValidOfTrailing(series.vals, call.a)
    /\ result.levels[1] # SeqMin(LastValid(series.vals, call.a))

(***************************************************************************)
(* Non-positive span, window or period                                     *)
(***************************************************************************)
NonPositiveParameter ==
    \/ call.op = "ema" /\ call.a <= 0
    \/ call.op = "macd" /\ (call.a <= 0 \/ call.b <= 0 \/ call.c <= 0)
    \/ call.op \in {"support_resistance", "trend_direction"} /\ call.a <= 0

\* C4: with a non-positive span, window or period every engine operation fails
\* with an error, for every input series including the empty one.
C4_FailFast ==
    (pc = "returned" /\ NonPositiveParameter) => result.raised

(***************************************************************************)
(* support_resistance                                                      *)
(***************************************************************************)
\* C5: for window >= 1, support_resistance returns (min, max) of the non-missing
\* entries among the last min(window, len) entries, whenever one remains.
C5_SupportResistanceMinMax ==
    (Called("support_resistance") /\ call.a >= 1 /\ ~series.isNone
        /\ Len(ValidOfTrailing(series.vals, call.a)) >= 1) =>
        /\ ~result.raised
        /\ Len(TrailingSlice(series.vals, call.a))
             = (IF call.a < Len(series.vals) THEN call.a ELSE Len(series.vals))
        /\ IsMinOf(result.levels[1], ValidOfTrailing(series.vals, call.a))
        /\ IsMaxOf(result.levels[2], ValidOfTrailing(series.vals, call.a))

\* C5 witness: support_resistance has returned with a window shorter than the
\* series, a missing entry inside the window and a smaller value before it.
C5_Witness ==
    /\ Called("support_resistance")
    /\ call.a = 2
    /\ Len(series.vals) = 3
    /\ ~series.vals[1].nan /\ series.vals[2].nan /\ ~series.vals[3].nan
    /\ VLt(series.vals[1], series.vals[3])
    /\ result = ReturnedLevels(series.vals[3], series.vals[3])

\* C9: support <= resistance in every result of support_resistance, the
\* (0.0, 0.0) sentinel included.
C9_SupportLeResistance ==
    Called("support_resistance") =>
        ~result.raised /\ VLe(result.levels[1], result.levels[2])

\* C9 witness: support_resistance has returned a support strictly below the
\* resistance.
C9_Witness ==
    /\ Called("support_resistance")
    /\ ~result.raised
    /\ VLt(result.levels[1], result.levels[2])

(***************************************************************************)
(* trend_direction                                                         *)
(***************************************************************************)
\* C6: with at least 2 valid entries selected, trend_direction returns
\* (label, slope) with slope the least-squares slope of the selected values
\* against 0..k-1, and label "Up" iff slope > tol, "Down" iff slope < -tol,
\* "Sideways" otherwise.
C6_TrendSlopeAndLabel ==
    (Called("trend_direction") /\ call.a >= 1 /\ ~series.isNone
        /\ Len(ValidOfTrailing(series.vals, call.a)) >= 2) =>
        /\ ~result.raised
        /\ IsLeastSquaresSlope(result.levels[1], ValidOfTrailing(series.vals, call.a))
        /\ result.trend \in {"Up", "Down", "Sideways"}
        /\ result.trend = "Up" <=> VGt(result.levels[1], call.tol)
        /\ result.trend = "Down" <=> VLt(result.levels[1], VNeg(call.tol))

\* C6 witness: trend_direction has returned a slope exactly equal to a positive
\* tolerance.
C6_Witness ==
    /\ Called("trend_direction")
    /\ call.tol # Zero
    /\ ~result.raised
    /\ result.levels[1] = call.tol
    /\ result.trend = "Sideways"

\* C8: trend_direction returns exactly ("Sideways", 0.0) whenever fewer than 2
\* valid entries remain in the trailing window.
C8_TrendSentinel ==
    (Called("trend_direction")
        /\ (NoneOrEmpty(series)
            \/ (call.a >= 0 /\ Len(ValidOfTrailing(series.vals, call.a)) < 2))) =>
        result = Sentinel_Trend

\* C8 witness: trend_direction has returned on a series with two valid entries
\* of which only one lies in the trailing window.
C8_Witness ==
    /\ Called("trend_direction")
    /\ call.a = 2
    /\ Len(series.vals) = 3
    /\ ~series.vals[1].nan /\ series.vals[2].nan /\ ~series.vals[3].nan
    /\ series.vals[1] # series.vals[3]
    /\ result = Sentinel_Trend

(***************************************************************************)
(* Insufficient data                                                       *)
(***************************************************************************)
AllPositiveParameters ==
    /\ call.a >= 1
    /\ call.op = "macd" => (call.b >= 1 /\ call.c >= 1)

\* C7: insufficient data is never an error: an empty or absent series gives
\* empty outputs from ema and macd, (0.0, 0.0) from support_resistance and
\* ("Sideways", 0.0) from trend_direction; an all-missing trailing window gives
\* (0.0, 0.0) from support_resistance; and with positive parameters no call
\* raises, whatever the series holds.
C7_InsufficientDataSentinels ==
    /\ (pc = "returned" /\ NoneOrEmpty(series)) =>
          /\ call.op = "ema" => result = ReturnedSeries(<<>>)
          /\ call.op = "macd" => result = ReturnedLines(<<>>, <<>>, <<>>)
          /\ call.op = "support_resistance" => result = Sentinel_SR
          /\ call.op = "trend_direction" => result = Sentinel_Trend
    /\ (Called("support_resistance") /\ ~NoneOrEmpty(series) /\ call.a >= 1
          /\ Len(ValidOfTrailing(series.vals, call.a)) = 0) =>
          result = Sentinel_SR
    /\ (pc = "returned" /\ AllPositiveParameters) => ~result.raised

\* C7 witness: support_resistance has returned on a series whose first entry is
\* present and whose trailing window holds only missing entries.
C7_Witness ==
    /\ Called("support_resistance")
    /\ call.a = 2
    /\ Len(series.vals) = 3
    /\ ~series.vals[1].nan /\ series.vals[2].nan /\ series.vals[3].nan
    /\ result = Sentinel_SR

(***************************************************************************)
(* Trend sign consistency                                                  *)
(***************************************************************************)
\* v has no missing entry and a constant difference step between neighbours.
IsLinear(v, step) ==
    /\ NoMissing(v)
    /\ \A i \in 2..Len(v) : VSub(v[i], v[i - 1]) = step

StepOf(v) == IF Len(v) >= 2 THEN VSub(v[2], v[1]) ELSE Zero

LinearTrendCall ==
    /\ Called("trend_direction")
    /\ call.tol = Num(DefaultTol)
    /\ ~NoneOrEmpty(series)
    /\ call.a >= 1
    /\ Len(series.vals) >= call.a
    /\ IsLinear(series.vals, StepOf(series.vals))

\* C10, as stated: with the default tolerance, a strictly increasing linear
\* series of length >= window gives "Up" with slope > 0, a strictly decreasing
\* one gives "Down", a constant one gives "Sideways" with slope 0.
C10_TrendSignEveryWindow ==
    LinearTrendCall =>
        /\ VGt(StepOf(series.vals), Zero) =>
             (result.trend = "Up" /\ VGt(result.levels[1], Zero))
        /\ VLt(StepOf(series.vals), Zero) => result.trend = "Down"
        /\ StepOf(series.vals) = Zero =>
             (result.trend = "Sideways" /\ result.levels[1] = Zero)

\* C10, amended: with the default tolerance and window >= 2, a linear series of
\* length >= window whose step exceeds the tolerance gives "Up" with slope =
\* step > 0, one whose step is below -tolerance gives "Down" with slope = step;
\* a constant series gives "Sideways" with slope 0 for every window >= 1.
C10_TrendSign ==
    LinearTrendCall =>
        /\ (call.a >= 2 /\ VGt(StepOf(series.vals), call.tol)) =>
             /\ result.trend = "Up"
             /\ result.levels[1] = StepOf(series.vals)
             /\ VGt(result.levels[1], Zero)
        /\ (call.a >= 2 /\ VLt(StepOf(series.vals), VNeg(call.tol))) =>
             /\ result.trend = "Down"
             /\ result.levels[1] = StepOf(series.vals)
        /\ StepOf(series.vals) = Zero =>
             (result.trend = "Sideways" /\ result.levels[1] = Zero)

\* C10 witness: trend_direction has returned "Up" on a three-point increasing
\* linear series with window 3.
C10_Witness ==
    /\ LinearTrendCall
    /\ call.a = 3
    /\ Len(series.vals) = 3
    /\ VGt(StepOf(series.vals), call.tol)
    /\ result.trend = "Up"

(***************************************************************************)
(* Defined outputs of ema and macd                                         *)
(***************************************************************************)
EmaOrMacdCall ==
    /\ pc = "returned"
    /\ call.op \in {"ema", "macd"}
    /\ AllPositiveParameters
    /\ ~NoneOrEmpty(series)

\* Some entry of v at or before position i is present.
SeenBy(v, i) == \E j \in 1..i : ~v[j].nan

\* C11, as stated: for every non-empty series, also one with missing entries,
\* ema and the three macd outputs are present at every index of the input.
C11_DefinedAtEveryIndex ==
    EmaOrMacdCall =>
        /\ ~result.raised
        /\ \A k \in 1..Len(result.lines) :
             /\ Len(result.lines[k]) = Len(series.vals)
             /\ \A i \in 1..Len(series.vals) : ~result.lines[k][i].nan

\* C11, amended: for every non-empty series, ema and the three macd outputs have
\* an entry at every index of the input, and the entry at index i is present
\* exactly when some input entry at or before i is present: no interior or
\* trailing position is left undefined, the positions before the first present
\* input entry are.
C11_DefinedFromFirstPresent ==
    EmaOrMacdCall =>
        /\ ~result.raised
        /\ Len(result.lines) = (IF call.op = "ema" THEN 1 ELSE 3)
        /\ \A k \in 1..Len(result.lines) :
             /\ Len(result.lines[k]) = Len(series.vals)
             /\ \A i \in 1..Len(series.vals) :
                  ~result.lines[k][i].nan <=> SeenBy(series.vals, i)

\* C11 witness: macd has returned on a series whose first entry is present and
\* whose second is missing, with a present histogram value at the missing
\* index.
C11_Witness ==
    /\ EmaOrMacdCall
    /\ call.op = "macd"
    /\ Len(series.vals) = 3
    /\ ~series.vals[1].nan /\ series.vals[2].nan /\ ~series.vals[3].nan
    /\ ~result.lines[3][2].nan

Asked(i) ==
    /\ i \in 1..Len(universe.rows)
    /\ fcall = "get_snapshots" \/ universe.rows[i].sym
    /\ fcall = "sector_performance" => universe.hasSector

Failed(i) == Asked(i) /\ universe.rows[i].fetch = "error"

Succeeded(i) == Asked(i) /\ universe.rows[i].fetch = "ok"

\* Row i is in what the function returned: a key of the snapshots, a row of
\* the gainers or of the losers, or a sector entry for the sector of row i.
Contributes(i) ==
    \/ i \in fresult.data
    \/ \E k \in 1..Len(fresult.gainers) : fresult.gainers[k] = i
    \/ \E k \in 1..Len(fresult.losers) : fresult.losers[k] = i
    \/ \E k \in 1..Len(fresult.perf) :
           fresult.perf[k].sector = universe.rows[i].sector

\* C13: in get_snapshots, top_movers_from_universe and sector_performance,
\* when fetching or parsing one symbol fails, every other symbol whose fetch
\* succeeds, before or after the failing one, is in the returned result.
C13_BestEffort ==
    (fpc = "returned" /\ \E j \in 1..Len(universe.rows) : Failed(j))
        => \A i \in 1..Len(universe.rows) : Succeeded(i) => Contributes(i)

(***************************************************************************)
(* build(): the TA loop and the outcome                                    *)
(***************************************************************************)
\* The section of the k-th history is in ta_sections.
HasSection(k) == \E j \in 1..Len(ta_sections) : ta_sections[j].name = Names[k]

\* The k-th history has rows and its closes are not all missing.
HasCloses(k) == ~FrameEmpty(hists[k]) /\ DropNa(hists[k].close) # <<>>

\* C14: once the TA loop has passed the k-th history, its section has been
\* appended if and only if the history is non-empty and its closes are
\* non-empty after dropping missing values; no indicator is given an empty
\* series and no last element is read from an empty series; and build() ends
\* by returning the PDF path or None.
C14_TaSectionsAndOutcome ==
    /\ \A k \in 1..2 : k <= taLog.iterations => (HasSection(k) <=> HasCloses(k))
    /\ ~taLog.onEmpty
    /\ ~taLog.lastOfEmpty
    /\ bpc = "done" <=> outcome \in {"pdf_path", "None"}

\* C14 witness: build() returned the path with the section of BANK NIFTY
\* only, the NIFTY 50 history having rows whose closes are all missing.
C14_Witness ==
    /\ bpc = "done"
    /\ outcome = "pdf_path"
    /\ ~FrameEmpty(hists[1]) /\ DropNa(hists[1].close) = <<>>
    /\ ~HasSection(1)
    /\ HasSection(2)

=============================================================================
